---- MODULE Spec2Model ----
(***************************************************************************)
(* Model of src/lua/modules/modules.cpp: the registry of recvbyte modules  *)
(* (class Modules), the handler record (class Module) and the dispatch of  *)
(* an inbound opcode to the module's script.                               *)
(*                                                                         *)
(* The registry and the handler record are translated from modules.cpp.    *)
(* The collaborators that modules.cpp only calls (the Event base class and *)
(* its script loader, Player::canRunModule / setModuleDelay, the script    *)
(* environment pool of LuaScriptInterface, g_game().getPlayerByID) are not *)
(* part of that file; they are modelled from the design document and are   *)
(* marked so where they are defined.                                       *)
(***************************************************************************)
EXTENDS Integers, Sequences, FiniteSets, TLC

VARIABLES
    recvbyteList,   \* Modules::recvbyteList: opcode key -> handler record
    event,          \* the record the loader is building (getEvent .. registerEvent)
    moduleDelayMap, \* per player, per opcode: next-allowed timestamp
    now,            \* OTSYS_TIME() as last read, milliseconds
    envStack,       \* script environments in use, innermost call last
    crashed,        \* the process died (null runtime dereferenced)
    lastRun,        \* history: per player, per opcode, the last bridge call
    nDispatch,      \* history: dispatches made so far
    last            \* history: the last operation and what it did

vars == <<recvbyteList, event, moduleDelayMap, now, envStack, crashed,
          lastRun, nDispatch, last>>

----------------------------------------------------------------------------
(* Bounds of the model *)

MaxTime == 1
MaxDispatch == 2
PoolSize == 1

----------------------------------------------------------------------------
(* Values *)

MODULE_TYPE_RECVBYTE == "RECVBYTE"
MODULE_TYPE_NONE == "NONE"

NullInterface == "nullptr"
\* &Modules::scriptInterface, the one runtime owned by the registry
TheInterface == "scriptInterface"

\* players known to g_game(), and the ids a caller may pass
Players == {1, 2}
PlayerIds == {1, 2, 3}

\* opcodes a client may send
Opcodes == {7, 9}

\* script ids the runtime hands out; 0 is "unbound"
ScriptIds == {1, 2}

\* what a member of a freshly constructed Module holds when the constructor
\* does not initialise it
UninitBytes == {0, 7}

\* the outcomes of calling through a null runtime pointer
UBOutcomes == {"crash", "returns"}

----------------------------------------------------------------------------
(* Text and integer conversions *)

UpperChars == <<"A","B","C","D","E","F","G","H","I","J","K","L","M",
                "N","O","P","Q","R","S","T","U","V","W","X","Y","Z">>
LowerChars == <<"a","b","c","d","e","f","g","h","i","j","k","l","m",
                "n","o","p","q","r","s","t","u","v","w","x","y","z">>

\* tolower of one character
ToLowerChar(c) ==
    IF \E i \in 1..Len(UpperChars) : UpperChars[i] = c
    THEN LowerChars[CHOOSE i \in 1..Len(UpperChars) : UpperChars[i] = c]
    ELSE c

\* asLowerCaseString: every character lowered, a string being a sequence
\* of characters
asLowerCaseString(s) == [i \in 1..Len(s) |-> ToLowerChar(s[i])]

\* strcasecmp(a, b), 0 when the strings are equal ignoring case
strcasecmp(a, b) == IF asLowerCaseString(a) = asLowerCaseString(b) THEN 0 ELSE 1

STR_module == <<"m","o","d","u","l","e">>
STR_recvbyte == <<"r","e","c","v","b","y","t","e">>

\* static_cast<uint8_t>(int)
ToUint8(v) == v % 256

\* static_cast<int16_t>(unsigned int): the low 16 bits, read as two's complement
ToInt16(v) ==
    LET w == v % 65536
    IN IF w >= 32768 THEN w - 65536 ELSE w

----------------------------------------------------------------------------
(* Configuration nodes: pugi::xml_node, by its name and its attributes *)

Attr(v) == [present |-> TRUE, value |-> v]
NoTypeAttr == [present |-> FALSE, value |-> <<>>]
NoIntAttr == [present |-> FALSE, value |-> 0]

NodeNames == { STR_module,
               <<"M","o","d","u","l","e">>,
               <<"a","c","t","i","o","n">> }

Node(type, byte, delay) == [type |-> type, byte |-> byte, delay |-> delay]

\* attribute values: type as as_string() reads it, byte as as_int() reads
\* it, delay as as_uint() reads it
TYPE_RecvByte == Attr(<<"R","e","c","v","B","y","t","e">>)
TYPE_recvbyte == Attr(STR_recvbyte)
TYPE_talk == Attr(<<"t","a","l","k">>)

\* the module nodes of the configuration documents
Nodes ==
    { Node(TYPE_recvbyte, Attr(7), NoIntAttr),        \* <module type="recvbyte" byte="7"/>
      Node(TYPE_RecvByte, Attr(7), Attr(1)),          \* type="RecvByte" byte="7" delay="1"
      Node(TYPE_recvbyte, Attr(263), Attr(65537)),    \* byte="263" delay="65537"
      Node(TYPE_recvbyte, Attr(9), Attr(40000)),      \* byte="9" delay="40000"
      Node(NoTypeAttr, Attr(7), Attr(1)),             \* <module byte="7" delay="1"/>
      Node(TYPE_talk, Attr(9), NoIntAttr),            \* type="talk" byte="9"
      Node(TYPE_recvbyte, NoIntAttr, Attr(1)) }       \* type="recvbyte" delay="1"

----------------------------------------------------------------------------
(* Handler record: class Module *)

NewModule_loaded(interface, rb, dl) ==
    [ type |-> MODULE_TYPE_NONE, loaded |-> TRUE,
      recvbyte |-> rb, delay |-> dl,
      scriptId |-> 0, scriptInterface |-> interface, scripted |-> FALSE ]

\* Module::Module(interface): type and loaded are initialised; an Event
\* starts unbound; recvbyte and delay hold whatever the memory held
NewModule(interface, rb, dl) ==
    [ type |-> MODULE_TYPE_NONE, loaded |-> FALSE,
      recvbyte |-> rb, delay |-> dl,
      scriptId |-> 0, scriptInterface |-> interface, scripted |-> FALSE ]

Module_configureEvent_typeFirst(m, node) ==
    LET m0 == [m EXCEPT !.delay = 0]
    IN IF ~node.type.present
       THEN [ok |-> FALSE, m |-> m0]
       ELSE IF asLowerCaseString(node.type.value) = STR_recvbyte
            THEN LET mt == [m0 EXCEPT !.type = MODULE_TYPE_RECVBYTE]
                 IN IF ~node.byte.present
                    THEN [ok |-> FALSE, m |-> mt]
                    ELSE LET m1 == [mt EXCEPT !.recvbyte = ToUint8(node.byte.value)]
                             m2 == IF node.delay.present
                                   THEN [m1 EXCEPT !.delay = ToInt16(node.delay.value)]
                                   ELSE m1
                         IN [ok |-> TRUE, m |-> [m2 EXCEPT !.loaded = TRUE]]
            ELSE [ok |-> FALSE, m |-> m0]

\* Module::configureEvent: the record after the call, and what it returns
Module_configureEvent(m, node) ==
    LET m0 == [m EXCEPT !.delay = 0]
    IN IF ~node.type.present
       THEN [ok |-> FALSE, m |-> m0]
       ELSE IF asLowerCaseString(node.type.value) = STR_recvbyte
            THEN IF ~node.byte.present
                 THEN [ok |-> FALSE, m |-> m0]
                 ELSE LET m1 == [m0 EXCEPT !.recvbyte = ToUint8(node.byte.value),
                                           !.type = MODULE_TYPE_RECVBYTE]
                          m2 == IF node.delay.present
                                THEN [m1 EXCEPT !.delay = ToInt16(node.delay.value)]
                                ELSE m1
                      IN [ok |-> TRUE, m |-> [m2 EXCEPT !.loaded = TRUE]]
            ELSE [ok |-> FALSE, m |-> m0]

\* The script loader binds a script body to a configured record
LoadScriptBody(m, sid) ==
    [m EXCEPT !.scriptId = sid, !.scripted = TRUE, !.loaded = TRUE]

\* Module::getScriptEventName
Module_getScriptEventName(m) ==
    IF m.type = MODULE_TYPE_RECVBYTE
    THEN <<"o","n","R","e","c","v","b","y","t","e">>
    ELSE <<>>

Module_copyEvent_noInterface(this, module) ==
    [this EXCEPT !.scriptId = module.scriptId,
                 !.scripted = module.scripted,
                 !.loaded = module.loaded]

Module_copyEvent_withDelay(this, module) ==
    [this EXCEPT !.scriptId = module.scriptId,
                 !.scriptInterface = module.scriptInterface,
                 !.scripted = module.scripted,
                 !.loaded = module.loaded,
                 !.delay = module.delay]

Module_copyEvent_noScriptId(this, module) ==
    [this EXCEPT !.scriptInterface = module.scriptInterface,
                 !.scripted = module.scripted,
                 !.loaded = module.loaded]

\* Module::copyEvent: this, after copying the binding of module
Module_copyEvent(this, module) ==
    [this EXCEPT !.scriptId = module.scriptId,
                 !.scriptInterface = module.scriptInterface,
                 !.scripted = module.scripted,
                 !.loaded = module.loaded]

Module_clearEvent_keepScripted(this) ==
    [this EXCEPT !.scriptId = 0,
                 !.scriptInterface = NullInterface,
                 !.loaded = FALSE]

\* Module::clearEvent
Module_clearEvent(this) ==
    [this EXCEPT !.scriptId = 0,
                 !.scriptInterface = NullInterface,
                 !.scripted = FALSE,
                 !.loaded = FALSE]

----------------------------------------------------------------------------
(* Registry: class Modules *)

Modules_getEventByRecvbyte_inverted(map, recvbyte, force) ==
    IF recvbyte \in DOMAIN map /\ (force \/ map[recvbyte].loaded)
    THEN {recvbyte}
    ELSE {}

\* Modules::getEventByRecvbyte: the entry found, as the set of the keys
\* that point at it (empty for nullptr)
Modules_getEventByRecvbyte(map, recvbyte, force) ==
    IF recvbyte \in DOMAIN map /\ (~force \/ map[recvbyte].loaded)
    THEN {recvbyte}
    ELSE {}

HasNoType_never(module) == FALSE

\* registerEvent, line 48: the record has no type
HasNoType(module) == module.type = MODULE_TYPE_NONE

MayRebind_ignoreLoaded(oldModule, module) ==
    oldModule.type = module.type

\* registerEvent, line 55: the old entry may take the new record's binding
MayRebind(oldModule, module) ==
    ~oldModule.loaded /\ oldModule.type = module.type

StoreModule_wrongKey(map, module) ==
    LET key == (module.recvbyte + 2) % 256
    IN [k \in DOMAIN map \cup {key} |-> IF k = key THEN module ELSE map[k]]

\* registerEvent, lines 62-67: assign to the entry found, or emplace
StoreModule(map, module) ==
    LET key == module.recvbyte
    IN [k \in DOMAIN map \cup {key} |-> IF k = key THEN module ELSE map[k]]

\* Modules::registerEvent: the map after the call, and what it returns
Modules_registerEvent(map, module) ==
    IF HasNoType(module)
    THEN [ok |-> FALSE, map |-> map]
    ELSE LET oldModule == Modules_getEventByRecvbyte(map, module.recvbyte, FALSE)
         IN IF oldModule # {}
            THEN LET key == CHOOSE k \in oldModule : TRUE
                 IN IF MayRebind(map[key], module)
                    THEN [ok |-> TRUE,
                          map |-> [map EXCEPT ![key] = Module_copyEvent(map[key], module)]]
                    ELSE [ok |-> FALSE, map |-> map]
            ELSE [ok |-> TRUE, map |-> StoreModule(map, module)]

\* Modules::clear, lines 23-25: every entry is cleared, the map keeps its keys
ClearAll(map) == [k \in DOMAIN map |-> Module_clearEvent(map[k])]

----------------------------------------------------------------------------
(* Players and the script environment pool *)

\* g_game().getPlayerByID: the player, as a set (empty for nullptr)
getPlayerByID(playerId) == {playerId} \cap Players

\* Player::canRunModule at time t
canRunModule(delayMap, player, opcode, t) == t >= delayMap[player][opcode]

\* Player::setModuleDelay at time t
setModuleDelay(delayMap, player, opcode, delay, t) ==
    [delayMap EXCEPT ![player][opcode] = t + delay]

\* LuaScriptInterface::reserveScriptEnv succeeds while the pool has room
CanReserveScriptEnv(stack) == Len(stack) < PoolSize

ResolvePlayer_fallback(playerId) ==
    IF playerId \in Players THEN {playerId} ELSE {CHOOSE p \in Players : TRUE}

\* executeOnRecvbyte, line 82: the player the dispatch is for
ResolvePlayer(playerId) == getPlayerByID(playerId)

Matching_noThrottle(map, delayMap, player, byte, t) ==
    { k \in DOMAIN map :
        /\ map[k].type = MODULE_TYPE_RECVBYTE
        /\ map[k].recvbyte = byte }

\* executeOnRecvbyte, line 89: the entries the scan stops at
Matching(map, delayMap, player, byte, t) ==
    { k \in DOMAIN map :
        /\ map[k].type = MODULE_TYPE_RECVBYTE
        /\ map[k].recvbyte = byte
        /\ canRunModule(delayMap, player, map[k].recvbyte, t) }

ArmKey_other(module) ==
    CHOOSE k \in Opcodes : k # module.recvbyte

\* executeOnRecvbyte, line 90: the opcode the throttle is armed for
ArmKey(module) == module.recvbyte

ArmDelay_zero(module) == 0

\* executeOnRecvbyte, line 90: the delay the throttle is armed with
ArmDelay(module) == module.delay

BridgeOutcome_offByOne(module, stack) ==
    IF Len(stack) > PoolSize THEN "exhausted"
    ELSE IF module.scriptInterface = NullInterface THEN "null"
    ELSE IF module.scriptId = 0 THEN "nofunction"
    ELSE "run"

BridgeOutcome_noReserve(module, stack) ==
    IF module.scriptInterface = NullInterface THEN "null"
    ELSE IF module.scriptId = 0 THEN "nofunction"
    ELSE "run"

\* Module::executeOnRecvbyte: what the bridge does with the record
\*   "exhausted"  no script environment could be reserved
\*   "null"       the runtime pointer is null and is dereferenced
\*   "nofunction" the runtime holds no function under the script id
\*   "run"        the script function is called
BridgeOutcome(module, stack) ==
    IF ~CanReserveScriptEnv(stack) THEN "exhausted"
    ELSE IF module.scriptInterface = NullInterface THEN "null"
    ELSE IF module.scriptId = 0 THEN "nofunction"
    ELSE "run"

----------------------------------------------------------------------------
(* State *)

NoEvent == [stage |-> "none", m |-> NewModule(TheInterface, 0, 0)]

NoRun == [t |-> -1, d |-> 0]

\* the record of an operation: which one, what it returned or did
Did(op, ok, player, byte, outcome, key, prev) ==
    [op |-> op, ok |-> ok, player |-> player, byte |-> byte,
     outcome |-> outcome, key |-> key, prev |-> prev]

Init ==
    /\ recvbyteList = <<>>
    /\ event = NoEvent
    /\ moduleDelayMap = [p \in Players |-> [k \in Opcodes |-> 0]]
    /\ now = 0
    /\ envStack = <<>>
    /\ crashed = FALSE
    /\ lastRun = [p \in Players |-> [k \in Opcodes |-> NoRun]]
    /\ nDispatch = 0
    /\ last = [op |-> "init", ok |-> FALSE, player |-> 0, byte |-> 0,
               outcome |-> "none", key |-> -1, prev |-> NoRun]

\* configuration runs on the game thread, outside any script call
AtConfigTime == ~crashed /\ envStack = <<>>

----------------------------------------------------------------------------
(* Loading one module node: getEvent, configureEvent, script binding,      *)
(* registerEvent                                                           *)

\* Modules::getEvent(nodeName)
Modules_getEvent(nodeName) ==
    /\ AtConfigTime
    /\ event.stage = "none"
    /\ IF strcasecmp(nodeName, STR_module) # 0
       THEN /\ event' = event
            /\ last' = Did("getEvent", FALSE, 0, 0, "nullptr", -1, NoRun)
       ELSE /\ \E rb \in UninitBytes :
                 event' = [stage |-> "fresh", m |-> NewModule(TheInterface, rb, 0)]
            /\ last' = Did("getEvent", TRUE, 0, 0, "created", -1, NoRun)
    /\ UNCHANGED <<recvbyteList, moduleDelayMap, now, envStack, crashed,
                   lastRun, nDispatch>>

\* Module::configureEvent(node) on the record being loaded
Configure(node) ==
    /\ AtConfigTime
    /\ event.stage = "fresh"
    /\ LET r == Module_configureEvent(event.m, node)
       IN /\ event' = [stage |-> IF r.ok THEN "configured" ELSE "failed", m |-> r.m]
          /\ last' = Did("configure", r.ok, 0, r.m.recvbyte, "none", -1, NoRun)
    /\ UNCHANGED <<recvbyteList, moduleDelayMap, now, envStack, crashed,
                   lastRun, nDispatch>>

\* the script loader binds a script id to the configured record
LoadScript(sid) ==
    /\ AtConfigTime
    /\ event.stage = "configured"
    /\ event' = [stage |-> "bound", m |-> LoadScriptBody(event.m, sid)]
    /\ last' = Did("loadScript", TRUE, 0, event.m.recvbyte, "none", -1, NoRun)
    /\ UNCHANGED <<recvbyteList, moduleDelayMap, now, envStack, crashed,
                   lastRun, nDispatch>>

\* Modules::registerEvent(event, node); the loader then drops the record
Register ==
    /\ AtConfigTime
    /\ event.stage # "none"
    /\ LET r == Modules_registerEvent(recvbyteList, event.m)
           old == IF event.m.recvbyte \in DOMAIN recvbyteList
                  THEN event.m.recvbyte ELSE -1
       IN /\ recvbyteList' = r.map
          /\ last' = Did("register", r.ok, 0, event.m.recvbyte, event.stage, old,
                         [t |-> -1, d |-> event.m.delay])
    /\ event' = NoEvent
    /\ UNCHANGED <<moduleDelayMap, now, envStack, crashed, lastRun, nDispatch>>

\* Modules::clear()
Modules_clear ==
    /\ AtConfigTime
    /\ event.stage = "none"
    /\ recvbyteList' = ClearAll(recvbyteList)
    /\ last' = Did("clear", TRUE, 0, 0, "none", -1, NoRun)
    /\ UNCHANGED <<event, moduleDelayMap, now, envStack, crashed, lastRun,
                   nDispatch>>

\* Modules::getEventByRecvbyte(recvbyte, force), called on the registry
Lookup(recvbyte, force) ==
    /\ AtConfigTime
    /\ event.stage = "none"
    /\ LET found == Modules_getEventByRecvbyte(recvbyteList, recvbyte, force)
       IN last' = Did("lookup", found # {}, 0, recvbyte,
                      IF force THEN "force" ELSE "any",
                      IF found = {} THEN -1 ELSE CHOOSE k \in found : TRUE, NoRun)
    /\ UNCHANGED <<recvbyteList, event, moduleDelayMap, now, envStack, crashed,
                   lastRun, nDispatch>>

----------------------------------------------------------------------------
(* Dispatch *)

\* Modules::executeOnRecvbyte(playerId, msg, byte), from the network decoder
\* or from a running script, when the clock reads t
Modules_executeOnRecvbyte(playerId, byte, t) ==
    /\ ~crashed
    /\ event.stage = "none"
    /\ nDispatch < MaxDispatch
    /\ nDispatch' = nDispatch + 1
    /\ t >= now
    /\ now' = t
    /\ IF ResolvePlayer(playerId) = {}
       THEN /\ last' = Did("dispatch", FALSE, playerId, byte, "noplayer", -1, NoRun)
            /\ UNCHANGED <<moduleDelayMap, envStack, crashed, lastRun>>
       ELSE LET player == CHOOSE p \in ResolvePlayer(playerId) : TRUE
                found == Matching(recvbyteList, moduleDelayMap, player, byte, t)
            IN IF found = {}
               THEN /\ last' = Did("dispatch", FALSE, playerId, byte, "nomatch", -1,
                                   lastRun[player][byte])
                    /\ UNCHANGED <<moduleDelayMap, envStack, crashed, lastRun>>
               ELSE \E key \in found :
                       LET module == recvbyteList[key]
                           what == BridgeOutcome(module, envStack)
                       IN /\ moduleDelayMap' =
                                setModuleDelay(moduleDelayMap, player,
                                               ArmKey(module), ArmDelay(module), t)
                          /\ lastRun' = [lastRun EXCEPT ![player][byte] =
                                            [t |-> t, d |-> module.delay]]
                          /\ last' = Did("dispatch", TRUE, playerId, byte, what, key,
                                         lastRun[player][byte])
                          /\ envStack' =
                                IF what = "run"
                                THEN Append(envStack,
                                            [player |-> player, byte |-> byte,
                                             key |-> key,
                                             scriptId |-> module.scriptId])
                                ELSE envStack
                          /\ IF what = "null"
                             THEN \E o \in UBOutcomes : crashed' = (o = "crash")
                             ELSE crashed' = crashed
    /\ UNCHANGED <<recvbyteList, event>>

\* the innermost script call completes, normally or with a script error;
\* the runtime releases its environment
ScriptReturn(how) ==
    /\ ~crashed
    /\ envStack # <<>>
    /\ envStack' = SubSeq(envStack, 1, Len(envStack) - 1)
    /\ LET f == envStack[Len(envStack)]
       IN last' = Did("return", how = "ok", f.player, f.byte, how, f.key, NoRun)
    /\ UNCHANGED <<recvbyteList, event, moduleDelayMap, now, crashed, lastRun,
                   nDispatch>>

Next ==
    \/ \E nodeName \in NodeNames : Modules_getEvent(nodeName)
    \/ \E node \in Nodes : Configure(node)
    \/ \E sid \in ScriptIds : LoadScript(sid)
    \/ Register
    \/ Modules_clear
    \/ \E recvbyte \in Opcodes, force \in BOOLEAN : Lookup(recvbyte, force)
    \/ \E playerId \in PlayerIds, byte \in Opcodes, t \in 0..MaxTime :
          Modules_executeOnRecvbyte(playerId, byte, t)
    \/ \E how \in {"ok", "error"} : ScriptReturn(how)

Spec == Init /\ [][Next]_vars

----------------------------------------------------------------------------
(* Dispatch selectivity *)

\* the entry stored at opcode k may be dispatched: present, loaded, of kind
\* on-receive-byte
Eligible(k) ==
    /\ k \in DOMAIN recvbyteList
    /\ recvbyteList[k].loaded
    /\ recvbyteList[k].type = MODULE_TYPE_RECVBYTE

\* C1: a dispatch for a known player invokes the handler at opcode k if and
\* only if the entry is present, loaded, of kind on-receive-byte and the
\* player's throttle permits; an entry unbound by clear() is never invoked.
\* (A dispatch that invokes nothing leaves the throttle as it was, so the
\* throttle it met is the one of the state it leaves.)
C1_DispatchSelectivity ==
    (last.op = "dispatch" /\ last.player \in Players) =>
        /\ last.ok => (last.key = last.byte /\ Eligible(last.byte))
        /\ ~last.ok =>
              ~( /\ Eligible(last.byte)
                 /\ canRunModule(moduleDelayMap, last.player, last.byte, now) )

----------------------------------------------------------------------------
(* Throttle *)

\* C2: a dispatch that invokes a handler of delay d > 0 at time t sets the
\* player's next-allowed timestamp for the opcode to t + d, and no dispatch
\* for the same player and opcode invokes the handler before t + d.
C2_ThrottleArming ==
    (last.op = "dispatch" /\ last.ok) =>
        /\ recvbyteList[last.key].delay > 0 =>
              moduleDelayMap[last.player][last.byte]
                 = now + recvbyteList[last.key].delay
        /\ last.prev.d > 0 => now >= last.prev.t + last.prev.d

\* a second dispatch inside the delay of the first is turned away
C2_Witness ==
    /\ last.op = "dispatch"
    /\ last.outcome = "nomatch"
    /\ last.byte \in DOMAIN recvbyteList
    /\ last.prev.d > 0
    /\ now < last.prev.t + last.prev.d

\* C3, as stated: a dispatch that selects a handler while the environment
\* pool is exhausted leaves the player's throttle unchanged.
C3_ThrottleNotArmed ==
    [][ (last'.op = "dispatch" /\ last'.ok /\ ~CanReserveScriptEnv(envStack))
            => moduleDelayMap' = moduleDelayMap ]_vars

\* C3, amended: such a dispatch calls no script (no environment is taken),
\* but the throttle is armed all the same: the next-allowed timestamp of
\* the player for the opcode is now + delay_ms.
C3_ThrottleArmedOnExhaustion ==
    [][ (last'.op = "dispatch" /\ last'.ok /\ ~CanReserveScriptEnv(envStack))
            => /\ envStack' = envStack
               /\ last'.outcome = "exhausted"
               /\ moduleDelayMap' =
                     [moduleDelayMap EXCEPT ![last'.player][last'.byte] =
                         now' + recvbyteList[last'.key].delay] ]_vars

\* the pool was exhausted and the throttle moved
C3_Witness ==
    /\ last.op = "dispatch"
    /\ last.outcome = "exhausted"
    /\ recvbyteList[last.key].delay # 0
    /\ moduleDelayMap[last.player][last.byte] = now + recvbyteList[last.key].delay

----------------------------------------------------------------------------
(* Registration *)

\* the script binding of a handler record
Binding(m) ==
    [scriptId |-> m.scriptId, scriptInterface |-> m.scriptInterface,
     scripted |-> m.scripted, loaded |-> m.loaded]

\* the keys under which a record of opcode k is stored
EntriesOf(map, k) == { key \in DOMAIN map : map[key].recvbyte = k }

\* the step hands a script-bound on-receive-byte record to registerEvent
\* while an on-receive-byte entry is stored at its opcode
RegistersSecond ==
    /\ last'.op = "register"
    /\ event.stage = "bound"
    /\ event.m.recvbyte \in DOMAIN recvbyteList
    /\ recvbyteList[event.m.recvbyte].type = event.m.type

\* the second registration succeeded and the single entry at the opcode
\* carries the second record's binding
SecondBound ==
    /\ last'.ok
    /\ DOMAIN recvbyteList' = DOMAIN recvbyteList
    /\ EntriesOf(recvbyteList', event.m.recvbyte) = {event.m.recvbyte}
    /\ Binding(recvbyteList'[event.m.recvbyte]) = Binding(event.m)

\* a script that dispatch starts is the one bound to the entry at the opcode
RunsBoundScript ==
    (last.op = "dispatch" /\ last.outcome = "run") =>
        /\ last.key = last.byte
        /\ envStack[Len(envStack)].scriptId = recvbyteList[last.byte].scriptId

C5_ConflictRejected ==
    [][ ( /\ last'.op = "register"
          /\ event.m.recvbyte \in DOMAIN recvbyteList
          /\ \/ recvbyteList[event.m.recvbyte].loaded
             \/ recvbyteList[event.m.recvbyte].type # event.m.type )
        => (~last'.ok /\ recvbyteList' = recvbyteList) ]_vars

\* a script-bound record was turned away by a loaded entry, which keeps a
\* script of its own
C5_Witness ==
    /\ last.op = "register"
    /\ ~last.ok
    /\ last.outcome = "bound"
    /\ last.key = last.byte
    /\ recvbyteList[last.byte].loaded
    /\ recvbyteList[last.byte].scripted

\* C6: after clear() every entry has loaded = false, script_id = 0 and
\* scripted = false; the keys and each entry's opcode, kind and delay_ms
\* are as before; a second clear() changes nothing.
C6_ClearPostcondition ==
    [][ last'.op = "clear" =>
          /\ DOMAIN recvbyteList' = DOMAIN recvbyteList
          /\ \A k \in DOMAIN recvbyteList :
                /\ ~recvbyteList'[k].loaded
                /\ recvbyteList'[k].scriptId = 0
                /\ ~recvbyteList'[k].scripted
                /\ recvbyteList'[k].recvbyte = recvbyteList[k].recvbyte
                /\ recvbyteList'[k].type = recvbyteList[k].type
                /\ recvbyteList'[k].delay = recvbyteList[k].delay
          /\ last.op = "clear" => recvbyteList' = recvbyteList ]_vars

\* clear() ran over a map that holds an entry with a delay
C6_Witness ==
    /\ last.op = "clear"
    /\ \E k \in DOMAIN recvbyteList : recvbyteList[k].delay # 0

\* the handler records that exist: the one being loaded and the stored ones
Records ==
    (IF event.stage = "none" THEN {} ELSE {event.m})
        \cup { recvbyteList[k] : k \in DOMAIN recvbyteList }

C8_OpcodeUnique ==
    /\ \A key \in DOMAIN recvbyteList : recvbyteList[key].recvbyte = key
    /\ \A k \in 0..255 : Cardinality(EntriesOf(recvbyteList, k)) <= 1

\* two opcodes are registered and a further record arrived for one of them
C8_Witness ==
    /\ Cardinality(DOMAIN recvbyteList) = 2
    /\ last.op = "register"
    /\ last.key = last.byte

\* C9: registerEvent of a record of kind none returns false and leaves the
\* opcode map unchanged; no entry of the registry has kind none.
C9_KindGate ==
    /\ [][ (last'.op = "register" /\ event.m.type = MODULE_TYPE_NONE)
              => (~last'.ok /\ recvbyteList' = recvbyteList) ]_vars
    /\ [](\A k \in DOMAIN recvbyteList :
              recvbyteList[k].type # MODULE_TYPE_NONE)

\* a record of kind none was handed to registerEvent and turned away
C9_Witness ==
    /\ last.op = "register"
    /\ last.outcome \in {"fresh", "failed"}
    /\ ~last.ok
    /\ recvbyteList # <<>>

\* C10: every configured record and every entry has delay_ms >= 0, and a
\* dispatch never arms a throttle with a timestamp earlier than now.
C10_DelayNonNegative ==
    /\ \A m \in Records : m.type = MODULE_TYPE_RECVBYTE => m.delay >= 0
    /\ (last.op = "dispatch" /\ last.ok) =>
           moduleDelayMap[last.player][last.byte] >= now

----------------------------------------------------------------------------
(* Configuration errors *)

\* the node has no type, a type other than "recvbyte" whatever the case, or
\* the type recvbyte and no byte
NodeInvalid(node) ==
    \/ ~node.type.present
    \/ strcasecmp(node.type.value, STR_recvbyte) # 0
    \/ ~node.byte.present

\* C11: configuring such a node returns false and leaves the record with
\* kind none and loaded = false; registerEvent turns that record away and
\* inserts no entry.
C11_ConfigurationErrors ==
    /\ [][ \A node \in Nodes :
              (Configure(node) /\ NodeInvalid(node))
                 => /\ ~last'.ok
                    /\ event'.stage = "failed"
                    /\ event'.m.type = MODULE_TYPE_NONE
                    /\ ~event'.m.loaded ]_vars
    /\ [][ (last'.op = "register" /\ event.stage = "failed")
              => (~last'.ok /\ recvbyteList' = recvbyteList) ]_vars

\* a record whose configuration failed was handed to registerEvent and the
\* map is still empty
C11_Witness ==
    /\ last.op = "register"
    /\ last.outcome = "failed"
    /\ ~last.ok
    /\ recvbyteList = <<>>

----------------------------------------------------------------------------
(* Script failure and re-entrancy *)

\* C12: a dispatch that selects a handler arms the player's throttle in the
\* dispatch itself, whatever the bridge then does; the completion of the
\* script, normal or with an error, leaves the throttle as armed; and no
\* dispatch invokes the handler for the player and opcode before the
\* armed timestamp.
C12_ThrottleCommitted ==
    /\ [][ (last'.op = "dispatch" /\ last'.ok) =>
              /\ moduleDelayMap'[last'.player][last'.byte]
                    = now' + recvbyteList[last'.key].delay
              /\ now' >= moduleDelayMap[last'.player][last'.byte] ]_vars
    /\ [][ last'.op = "return" => moduleDelayMap' = moduleDelayMap ]_vars

\* a script ended with an error and the player is still throttled
C12_Witness ==
    /\ last.op = "return"
    /\ last.outcome = "error"
    /\ moduleDelayMap[last.player][last.byte] > now

\* C13: the environments in use never exceed the pool; a dispatch made
\* while the pool is full (from a running script) starts no script and
\* leaves the running calls as they are, and the outer call can return.
\* With a pool of one, a script that dispatches its own opcode for its own
\* player is therefore invoked once.
C13_EnvExhaustion ==
    /\ [](Len(envStack) <= PoolSize)
    /\ [][ (last'.op = "dispatch" /\ Len(envStack) = PoolSize)
              => (envStack' = envStack /\ ~crashed') ]_vars
    /\ []((last.op = "dispatch" /\ last.outcome = "exhausted")
              => ENABLED ScriptReturn("ok"))

\* the handler's script dispatched its own opcode for its own player, at
\* delay 0, and the nested call was dropped
C13_Witness ==
    /\ last.op = "dispatch"
    /\ last.outcome = "exhausted"
    /\ Len(envStack) = 1
    /\ envStack[1].byte = last.byte
    /\ envStack[1].player = last.player
    /\ recvbyteList[last.key].delay = 0

----------------------------------------------------------------------------
(* Hot reload, unknown player, lookup *)

\* the script-bound on-receive-byte records the loader can build for opcode k
BoundRecordsFor(k) ==
    { LoadScriptBody(Module_configureEvent(NewModule(TheInterface, rb, 0), node).m, sid) :
         rb \in UninitBytes, sid \in ScriptIds,
         node \in { n \in Nodes : /\ ~NodeInvalid(n)
                                  /\ ToUint8(n.byte.value) = k } }

\* the entry at k after module was registered: the one entry at k, loaded,
\* scripted, bound to module's script in the registry's runtime
ReboundTo(map, k, module) ==
    /\ EntriesOf(map, k) = {k}
    /\ map[k].loaded
    /\ map[k].scripted
    /\ map[k].scriptId = module.scriptId
    /\ map[k].scriptId # 0
    /\ map[k].scriptInterface # NullInterface

\* C14: after clear(), for every opcode k that has an entry, registering a
\* freshly configured, script-bound on-receive-byte record of opcode k
\* returns true and rebinds the retained entry in place: the map keeps its
\* keys, and the entry at k is loaded, scripted, carries the new script id
\* and a non-null runtime; a dispatch of k then starts the new script.
C14_HotReload ==
    /\ [](last.op = "clear" =>
            \A k \in DOMAIN recvbyteList : \A module \in BoundRecordsFor(k) :
               LET r == Modules_registerEvent(recvbyteList, module)
               IN /\ r.ok
                  /\ DOMAIN r.map = DOMAIN recvbyteList
                  /\ ReboundTo(r.map, k, module))
    /\ [][ ( /\ last'.op = "register"
             /\ event.stage = "bound"
             /\ event.m.recvbyte \in DOMAIN recvbyteList
             /\ ~recvbyteList[event.m.recvbyte].loaded )
           => /\ last'.ok
              /\ DOMAIN recvbyteList' = DOMAIN recvbyteList
              /\ ReboundTo(recvbyteList', event.m.recvbyte, event.m) ]_vars
    /\ []((last.op = "dispatch" /\ last.outcome = "run") =>
             envStack[Len(envStack)].scriptId = recvbyteList[last.byte].scriptId)

\* with two opcodes registered, the entry that clear() retained at one of
\* them took the binding of a freshly loaded record
C14_Witness ==
    /\ last.op = "register"
    /\ last.ok
    /\ last.outcome = "bound"
    /\ last.key = last.byte
    /\ ReboundTo(recvbyteList, last.byte, recvbyteList[last.byte])
    /\ Cardinality(DOMAIN recvbyteList) = 2

\* C15: a dispatch for a player id that resolves to no player invokes no
\* handler, takes no script environment and changes no throttle and no
\* registry entry.
C15_UnknownPlayer ==
    [][ (last'.op = "dispatch" /\ getPlayerByID(last'.player) = {}) =>
          /\ ~last'.ok
          /\ envStack' = envStack
          /\ moduleDelayMap' = moduleDelayMap
          /\ recvbyteList' = recvbyteList
          /\ crashed' = crashed ]_vars

\* a dispatch for an unknown player met a handler that a known player
\* would have run
C15_Witness ==
    /\ last.op = "dispatch"
    /\ last.player \notin Players
    /\ Eligible(last.byte)
    /\ \A p \in Players : canRunModule(moduleDelayMap, p, last.byte, now)

\* C16: lookup returns nothing when there is no entry at the opcode, nothing
\* when require_loaded is set and the entry is not loaded, and the entry
\* stored at the opcode otherwise; it never modifies the registry.
C16_Lookup ==
    /\ [](last.op = "lookup" =>
            LET k == last.byte
                require_loaded == (last.outcome = "force")
            IN /\ k \notin DOMAIN recvbyteList => ~last.ok
               /\ (k \in DOMAIN recvbyteList /\ require_loaded
                      /\ ~recvbyteList[k].loaded) => ~last.ok
               /\ (k \in DOMAIN recvbyteList
                      /\ (~require_loaded \/ recvbyteList[k].loaded))
                     => (last.ok /\ last.key = k))
    /\ [][ last'.op = "lookup" => recvbyteList' = recvbyteList ]_vars

\* a lookup that does not require a loaded entry returned an entry that
\* clear() had unbound
C16_Witness ==
    /\ last.op = "lookup"
    /\ last.outcome = "any"
    /\ last.ok
    /\ ~recvbyteList[last.byte].loaded

----------------------------------------------------------------------------
(* Bridge precondition and frames *)

\* C17: whenever dispatch calls the bridge on a handler record and the
\* bridge tags an environment and calls the function, the record is bound:
\* its runtime reference is non-null and its script id is not 0.
C17_BridgePrecondition ==
    (last.op = "dispatch" /\ last.ok /\ last.outcome # "exhausted") =>
        /\ recvbyteList[last.key].scriptInterface # NullInterface
        /\ recvbyteList[last.key].scriptId # 0

\* C18: when registerEvent merges a record into the unloaded entry at its
\* opcode, the entry keeps its opcode, kind and delay_ms, whatever delay the
\* new record was configured with, and every other entry is unchanged.
C18_CopyBindFrame ==
    [][ ( /\ last'.op = "register"
          /\ event.m.recvbyte \in DOMAIN recvbyteList
          /\ ~recvbyteList[event.m.recvbyte].loaded
          /\ recvbyteList[event.m.recvbyte].type = event.m.type )
        => LET k == event.m.recvbyte
           IN /\ last'.ok
              /\ DOMAIN recvbyteList' = DOMAIN recvbyteList
              /\ recvbyteList'[k].recvbyte = recvbyteList[k].recvbyte
              /\ recvbyteList'[k].type = recvbyteList[k].type
              /\ recvbyteList'[k].delay = recvbyteList[k].delay
              /\ \A j \in DOMAIN recvbyteList \ {k} :
                    recvbyteList'[j] = recvbyteList[j] ]_vars

\* with two opcodes registered, a record configured with another delay was
\* merged into the entry at its opcode
C18_Witness ==
    /\ last.op = "register"
    /\ last.ok
    /\ last.key = last.byte
    /\ last.prev.d # recvbyteList[last.byte].delay
    /\ Cardinality(DOMAIN recvbyteList) = 2

\* C19: a dispatch changes at most the throttle of its player for its
\* opcode and never the opcode map; the map changes only in registerEvent
\* and clear.
C19_ThrottleIsolation ==
    /\ [][ last'.op = "dispatch" =>
              /\ recvbyteList' = recvbyteList
              /\ \A p \in Players, k \in Opcodes :
                    (p # last'.player \/ k # last'.byte)
                       => moduleDelayMap'[p][k] = moduleDelayMap[p][k] ]_vars
    /\ [][ recvbyteList' # recvbyteList
              => last'.op \in {"register", "clear"} ]_vars

\* a dispatch armed a player's throttle while the other player's throttle
\* for the same opcode, armed earlier, kept its value
C19_Witness ==
    /\ last.op = "dispatch"
    /\ last.ok
    /\ moduleDelayMap[last.player][last.byte] # 0
    /\ \E p \in Players \ {last.player} :
          /\ lastRun[p][last.byte] # NoRun
          /\ moduleDelayMap[p][last.byte]
                = lastRun[p][last.byte].t + lastRun[p][last.byte].d
          /\ moduleDelayMap[p][last.byte] # moduleDelayMap[last.player][last.byte]

====
